---- MODULE Spec2Model ----
(***************************************************************************)
(* Model of src/src/lib.rs: the Endpoint trait (route, http), the path     *)
(* template translation axum_path_str_to_openapi, the documentation        *)
(* projection DocumentedEndpoint::path_item and the EndpointWrapper        *)
(* adapter (axum Handler::call, utoipa Path::path).                        *)
(*                                                                         *)
(* A Rust &str is modelled as its UTF-8 byte sequence, so that the byte    *)
(* slices &s[0..1] and &s[1..] behave as they do in the build: a slice     *)
(* whose end is not a char boundary panics.                                *)
(***************************************************************************)
EXTENDS Integers, Sequences, FiniteSets, TLC

VARIABLES
    METHOD,     \* Endpoint::METHOD of the endpoint type under check
    PATH,       \* Endpoint::PATH, a byte string
    openapi,    \* outcome of axum_path_str_to_openapi(PATH)
    docPath,    \* outcome of <EndpointWrapper<T> as utoipa::Path>::path()
    router,     \* outcome of Endpoint::route(&self)
    successs,   \* DocumentedEndpoint::successs(): <<code, desc, value>> entries
    errors,     \* DocumentedEndpoint::errors(): <<desc, err>> entries
    errStatus,  \* the endpoint's declared conversion &Error -> StatusCode
    responses,  \* outcome of the responses block of path_item()
    objs,       \* endpoint objects: objs[0] is the shared instance (&self),
                \* objs[i] the value call i cloned from it
    calls       \* the in-flight Endpoint::http futures, one per call

vars == <<METHOD, PATH, openapi, docPath, router, successs, errors, errStatus,
          responses, objs, calls>>

-----------------------------------------------------------------------------
(* Bounds of the model *)

MaxLen == 6           \* characters of a PATH in SpecPath
MaxRoutePathLen == 2  \* characters of a PATH in SpecRoute
MaxDecl == 2          \* entries of successs() and of errors() in SpecDoc
NumCalls == 2         \* concurrent calls of Endpoint::http in Spec

-----------------------------------------------------------------------------
(* Byte strings *)

Slash == 47
Colon == 58
LBrace == 123
RBrace == 125

\* The characters paths are drawn from, each as its UTF-8 encoding:
\* '/', ':', 'a' and the two-byte U+00E9.
Chars == { <<Slash>>, <<Colon>>, <<97>>, <<195, 169>> }

RECURSIVE Flatten(_)
Flatten(cs) == IF cs = <<>> THEN <<>> ELSE Head(cs) \o Flatten(Tail(cs))

\* Every string of at most n characters of Chars, as bytes.
Strings(n) == UNION { { Flatten(cs) : cs \in [1..k -> Chars] } : k \in 0..n }

\* str::is_char_boundary(i), i a byte offset counted from 0.
IsCharBoundary(s, i) ==
    \/ i = 0
    \/ i = Len(s)
    \/ i < Len(s) /\ ~(s[i + 1] \in 128..191)

Panic == [ok |-> FALSE, out |-> <<>>]
Value(s) == [ok |-> TRUE, out |-> s]

\* &s[lo..hi] of a str: panics unless both ends lie on char boundaries.
StrSlice(s, lo, hi) ==
    IF lo <= hi /\ hi <= Len(s) /\ IsCharBoundary(s, lo) /\ IsCharBoundary(s, hi)
    THEN Value(SubSeq(s, lo + 1, hi))
    ELSE Panic

\* str::split('/'): the segments between slashes, empty ones included.
RECURSIVE SplitFrom(_, _, _)
SplitFrom(s, i, cur) ==
    IF i > Len(s) THEN <<cur>>
    ELSE IF s[i] = Slash THEN <<cur>> \o SplitFrom(s, i + 1, <<>>)
    ELSE SplitFrom(s, i + 1, Append(cur, s[i]))

Split(s) == SplitFrom(s, 1, <<>>)

\* .filter(|s| !s.is_empty())
NonEmpty(segs) == SelectSeq(segs, LAMBDA s : s # <<>>)

\* The closure of .map(): one piece per segment.
SegmentPiece(s) ==
    LET head == StrSlice(s, 0, 1)
        rest == StrSlice(s, 1, Len(s))
    IN  IF ~head.ok THEN Panic
        ELSE IF head.out = <<Colon>>
             THEN IF rest.ok
                  THEN Value(<<Slash, LBrace>> \o rest.out \o <<RBrace>>)
                  ELSE Panic
             ELSE Value(<<Slash>> \o s)

\* .collect::<String>(): the pieces in order; a panic in the closure unwinds
\* out of the whole call.
RECURSIVE Collect(_)
Collect(segs) ==
    IF segs = <<>> THEN Value(<<>>)
    ELSE LET p == SegmentPiece(Head(segs))
             r == Collect(Tail(segs))
         IN  IF p.ok /\ r.ok THEN Value(p.out \o r.out) ELSE Panic

axum_path_str_to_openapi(path) == Collect(NonEmpty(Split(path)))

-----------------------------------------------------------------------------
(* The endpoint's associated types, as sample types *)

\* Endpoint::Response values and their serde_json form (a token sequence).
ResVals == [id : {"1", "2"}, name : {"ann"}]
NoRes == [id |-> "", name |-> ""]
ResToJson(v) == <<"{", "id", ":", v.id, ",", "name", ":", v.name, "}">>
ResFromJson(b) ==
    IF Len(b) = 9 /\ b[1] = "{" /\ b[2] = "id" /\ b[6] = "name" /\ b[9] = "}"
    THEN [id |-> b[4], name |-> b[8]]
    ELSE NoRes

\* Endpoint::Error values (unit variants) and their serde_json form.
ErrVals == {"NotFound", "Denied"}
NoErr == ""
ErrToJson(e) == <<"\"", e, "\"">>
ErrFromJson(b) ==
    IF Len(b) = 3 /\ b[1] = "\"" /\ b[3] = "\"" THEN b[2] ELSE NoErr

\* The status codes an endpoint may declare for an error, and the
\* conversions for<'a> &'a Self::Error: Into<StatusCode> it may declare.
ErrCodes == {403, 404}
Conversions == [ErrVals -> ErrCodes]

\* SuccessResponse<Res> = (StatusCode, &'static str, Res)
SuccessEntries == {200, 201} \X {"done"} \X ResVals
\* ErrorResponse<Err> = (&'static str, Err)
ErrorEntries == {"failed"} \X ErrVals

SeqsUpTo(S, n) == UNION { [1..k -> S] : k \in 0..n }

\* <StatusCode as Display>::to_string(): the code and its canonical reason.
StatusText(code) ==
    CASE code = 200 -> "200 OK"
      [] code = 201 -> "201 Created"
      [] code = 403 -> "403 Forbidden"
      [] code = 404 -> "404 Not Found"
      [] OTHER -> "000"

\* The state of an endpoint value (its fields).
EndpointStates == {"cfgA", "cfgB"}
Moved == "moved"
Freed == "freed"
Unalloc == "unalloc"

-----------------------------------------------------------------------------
(* Defaults of the variables a specification does not exercise *)

NoOutcome == [state |-> "none", ok |-> FALSE, out |-> <<>>]
NoRouter == [state |-> "none", method |-> "", path |-> <<>>, inner |-> ""]
NoResponses == [state |-> "none", map |-> <<>>]

-----------------------------------------------------------------------------
(* SpecPath: axum_path_str_to_openapi and utoipa::Path::path *)

\* <EndpointWrapper<T> as utoipa::Path>::path()
UtoipaPath(path) == path

Translate ==
    /\ openapi.state = "none"
    /\ openapi' = [state |-> "returned"] @@ axum_path_str_to_openapi(PATH)
    /\ UNCHANGED <<METHOD, PATH, docPath, router, successs, errors, errStatus,
                   responses, objs, calls>>

DocPath ==
    /\ docPath.state = "none"
    /\ docPath' = [state |-> "returned", ok |-> TRUE, out |-> UtoipaPath(PATH)]
    /\ UNCHANGED <<METHOD, PATH, openapi, router, successs, errors, errStatus,
                   responses, objs, calls>>

InitPath ==
    /\ METHOD = "Get"
    /\ PATH \in Strings(MaxLen)
    /\ openapi = NoOutcome
    /\ docPath = NoOutcome
    /\ router = NoRouter
    /\ successs = <<>>
    /\ errors = <<>>
    /\ errStatus \in {[e \in ErrVals |-> 404]}
    /\ responses = NoResponses
    /\ objs = [o \in 0..NumCalls |-> IF o = 0 THEN "cfgA" ELSE Unalloc]
    /\ calls = <<>>

NextPath == Translate \/ DocPath

SpecPath == InitPath /\ [][NextPath]_vars

-----------------------------------------------------------------------------
(* SpecRoute: Endpoint::route *)

\* The variants of utoipa::openapi::PathItemType (= Method).
Methods == {"Get", "Post", "Put", "Delete", "Options", "Head", "Patch",
            "Trace", "Connect"}

\* EndpointWrapper::new(self.clone()): the wrapper owns a copy of the
\* endpoint's fields.
EndpointWrapperNew(inner) == [inner |-> inner]

\* The match on Self::METHOD: the axum method filter the wrapper is bound
\* under, or a panic (todo!()) for Connect.
MethodRouter(m, wrapper) ==
    CASE m = "Get"     -> [ok |-> TRUE, filter |-> "GET", handler |-> wrapper]
      [] m = "Post"    -> [ok |-> TRUE, filter |-> "POST", handler |-> wrapper]
      [] m = "Put"     -> [ok |-> TRUE, filter |-> "PUT", handler |-> wrapper]
      [] m = "Delete"  -> [ok |-> TRUE, filter |-> "DELETE", handler |-> wrapper]
      [] m = "Options" -> [ok |-> TRUE, filter |-> "OPTIONS", handler |-> wrapper]
      [] m = "Head"    -> [ok |-> TRUE, filter |-> "HEAD", handler |-> wrapper]
      [] m = "Patch"   -> [ok |-> TRUE, filter |-> "PATCH", handler |-> wrapper]
      [] m = "Trace"   -> [ok |-> TRUE, filter |-> "TRACE", handler |-> wrapper]
      [] m = "Connect" -> [ok |-> FALSE, filter |-> "", handler |-> wrapper]

\* Endpoint::route(&self)
route(self, method, path) ==
    LET wrapper == EndpointWrapperNew(self)
        mr == MethodRouter(method, wrapper)
    IN  IF mr.ok
        THEN [state |-> "built", method |-> mr.filter, path |-> path,
              inner |-> mr.handler.inner]
        ELSE [state |-> "panicked", method |-> "", path |-> <<>>, inner |-> ""]

Route ==
    /\ router.state = "none"
    /\ router' = route(objs[0], METHOD, PATH)
    /\ UNCHANGED <<METHOD, PATH, openapi, docPath, successs, errors, errStatus,
                   responses, objs, calls>>

\* Route templates: a '/' followed by at most MaxRoutePathLen characters.
RoutePaths == { <<Slash>> \o s : s \in Strings(MaxRoutePathLen) }

InitRoute ==
    /\ METHOD \in Methods
    /\ PATH \in RoutePaths
    /\ openapi = NoOutcome
    /\ docPath = NoOutcome
    /\ router = NoRouter
    /\ successs = <<>>
    /\ errors = <<>>
    /\ errStatus \in {[e \in ErrVals |-> 404]}
    /\ responses = NoResponses
    /\ objs \in { [o \in 0..NumCalls |-> IF o = 0 THEN st ELSE Unalloc] :
                  st \in EndpointStates }
    /\ calls = <<>>

NextRoute == Route

SpecRoute == InitRoute /\ [][NextRoute]_vars

-----------------------------------------------------------------------------
(* SpecDoc: the responses block of DocumentedEndpoint::path_item *)

\* <Self as TypeNameRaw>::type_name_raw() of the endpoint type under check.
TypeNameRaw == "GetUser"

\* ResponsesBuilder::response(code, response): an insert into the map of
\* responses keyed by the code's text; a later insert under the same key
\* replaces the earlier one.
ResponsesInsert(map, key, resp) ==
    [k \in DOMAIN map \cup {key} |-> IF k = key THEN resp ELSE map[k]]

\* for (code, desc, resp) in &Self::successs() { ... }
RECURSIVE SuccessLoop(_, _)
SuccessLoop(builder, list) ==
    IF list = <<>> THEN builder
    ELSE LET e == Head(list)
             resp == [description |-> e[2],
                      schema |-> <<TypeNameRaw, "Response">>,
                      example |-> ResToJson(e[3])]
         IN  SuccessLoop(ResponsesInsert(builder, StatusText(e[1]), resp),
                         Tail(list))

\* for (desc, err) in &Self::errors() { ... }
RECURSIVE ErrorLoop(_, _, _)
ErrorLoop(builder, list, conv) ==
    IF list = <<>> THEN builder
    ELSE LET e == Head(list)
             resp == [description |-> e[1],
                      schema |-> <<TypeNameRaw, "Error">>,
                      example |-> ErrToJson(e[2])]
         IN  ErrorLoop(ResponsesInsert(builder, StatusText(conv[e[2]]), resp),
                       Tail(list), conv)

\* The .responses({ ... }) argument of path_item().
PathItemResponses(succ, errs, conv) ==
    ErrorLoop(SuccessLoop(<<>>, succ), errs, conv)

PathItem ==
    /\ responses.state = "none"
    /\ responses' = [state |-> "built",
                     map |-> PathItemResponses(successs, errors, errStatus)]
    /\ UNCHANGED <<METHOD, PATH, openapi, docPath, router, successs, errors,
                   errStatus, objs, calls>>

InitDoc ==
    /\ METHOD = "Get"
    /\ PATH = <<Slash, 97>>
    /\ openapi = NoOutcome
    /\ docPath = NoOutcome
    /\ router = NoRouter
    /\ successs \in SeqsUpTo(SuccessEntries, MaxDecl)
    /\ errors \in SeqsUpTo(ErrorEntries, MaxDecl)
    /\ errStatus \in Conversions
    /\ responses = NoResponses
    /\ objs = [o \in 0..NumCalls |-> IF o = 0 THEN "cfgA" ELSE Unalloc]
    /\ calls = <<>>

NextDoc == PathItem

SpecDoc == InitDoc /\ [][NextDoc]_vars

-----------------------------------------------------------------------------
(* Spec: concurrent calls of Endpoint::http on one endpoint instance *)

Calls == 1..NumCalls

\* What a hyper request holds, as far as http looks at it: whether
\* Self::Request::from_request yields a value or a rejection, and whether the
\* request's extensions hold a SharedContext.
ReqVals == {"q1"}
Rejections == {"JsonSyntaxError", "MissingJsonContentType"}
Requests ==
    { [ok |-> TRUE, val |-> v, rej |-> "", hasCtx |-> h] :
        v \in ReqVals, h \in BOOLEAN }
    \cup
    { [ok |-> FALSE, val |-> "", rej |-> r, hasCtx |-> h] :
        r \in Rejections, h \in BOOLEAN }
NoRequest == [ok |-> FALSE, val |-> "", rej |-> "", hasCtx |-> FALSE]

\* Result<Self::Response, Self::Error>
Results ==
    { [ok |-> TRUE, val |-> v, err |-> NoErr] : v \in ResVals }
    \cup { [ok |-> FALSE, val |-> NoRes, err |-> e] : e \in ErrVals }
NoResult == [ok |-> FALSE, val |-> NoRes, err |-> NoErr]

NoResponse == [status |-> 0, ctype |-> "", body |-> <<>>]

StatusOK == 200
StatusInternalServerError == 500

\* <Rejection as IntoResponse>::into_response() of the request extractor.
RejectionIntoResponse(rej) ==
    [status |-> IF rej = "MissingJsonContentType" THEN 415 ELSE 400,
     ctype |-> "text/plain",
     body |-> <<rej>>]

\* <ExtensionRejection as IntoResponse>::into_response()
MissingExtensionIntoResponse ==
    [status |-> StatusInternalServerError,
     ctype |-> "text/plain",
     body |-> <<"Missing request extension">>]

\* response::Json(v).into_response(), v already in its serde_json form.
JsonIntoResponse(json) ==
    [status |-> StatusOK, ctype |-> "application/json", body |-> json]

\* (StatusCode, R).into_response(): R's response with the status replaced.
WithStatus(code, resp) == [resp EXCEPT !.status = code]

IdleCall ==
    [pc |-> "idle", req |-> NoRequest, this |-> -1, val |-> "", ctx |-> FALSE,
     invoked |-> 0, handledOn |-> -1, result |-> NoResult,
     response |-> NoResponse, trace |-> <<>>]

\* let this = self.clone(): the object call i's future owns.
\* Variant: no clone is taken, the future works on the shared instance.
CloneAlias(self, i) == self

CloneOf(self, i) == i

\* match Self::Request::from_request(&mut req_parts).await { ... }
\* Variant: the rejection is discarded and the run goes on with a default.
FromRequestUnwrapOrDefault(c) ==
    [c EXCEPT !.pc = "extract_ctx", !.val = c.req.val,
              !.trace = Append(@, "from_request")]

FromRequestMatch(c) ==
    IF c.req.ok
    THEN [c EXCEPT !.pc = "extract_ctx", !.val = c.req.val,
                   !.trace = Append(@, "from_request")]
    ELSE [c EXCEPT !.pc = "done",
                   !.response = RejectionIntoResponse(c.req.rej),
                   !.trace = @ \o <<"from_request", "response">>]

\* match Extension::<crate::SharedContext>::from_request(&mut req_parts).await
\* { ... }
\* Variant: the extraction is unwrapped, so a missing context panics.
ExtensionUnwrap(c) ==
    IF c.req.hasCtx
    THEN [c EXCEPT !.pc = "call_handle", !.ctx = TRUE,
                   !.trace = Append(@, "extension")]
    ELSE [c EXCEPT !.pc = "panicked", !.trace = Append(@, "extension")]

\* Variant: a missing context does not end the run.
ExtensionOrDefault(c) ==
    [c EXCEPT !.pc = "call_handle", !.ctx = c.req.hasCtx,
              !.trace = Append(@, "extension")]

ExtensionMatch(c) ==
    IF c.req.hasCtx
    THEN [c EXCEPT !.pc = "call_handle", !.ctx = TRUE,
                   !.trace = Append(@, "extension")]
    ELSE [c EXCEPT !.pc = "done",
                   !.response = MissingExtensionIntoResponse,
                   !.trace = @ \o <<"extension", "response">>]

\* match this.handle(&ctx, req).await { Ok(ok) => ..., Err(err) => ... }
\* Variant: the error arm answers with Json(err) alone, without the status.
HandleMatchJsonOnly(res, conv) ==
    IF res.ok
    THEN JsonIntoResponse(ResToJson(res.val))
    ELSE JsonIntoResponse(ErrToJson(res.err))

HandleMatch(res, conv) ==
    IF res.ok
    THEN JsonIntoResponse(ResToJson(res.val))
    ELSE WithStatus(conv[res.err], JsonIntoResponse(ErrToJson(res.err)))

\* An early return ends the future: the `this` it still owns is dropped.
AfterStep(heap, c) ==
    IF c.pc = "done" THEN [heap EXCEPT ![c.this] = Freed] ELSE heap

\* EndpointWrapper::call(self, req) -> self.http(req): the clone is taken
\* and the future is created; nothing of the async block has run yet.
Call(i) ==
    /\ calls[i].pc = "idle"
    /\ \E req \in Requests :
        LET this == CloneOf(0, i)
        IN  /\ objs' = [objs EXCEPT ![this] = objs[0]]
            /\ calls' = [calls EXCEPT ![i] =
                            [IdleCall EXCEPT !.pc = "extract_req",
                                             !.req = req, !.this = this]]
    /\ UNCHANGED <<METHOD, PATH, openapi, docPath, router, successs, errors,
                   errStatus, responses>>

ExtractRequest(i) ==
    /\ calls[i].pc = "extract_req"
    /\ calls' = [calls EXCEPT ![i] = FromRequestMatch(calls[i])]
    /\ objs' = AfterStep(objs, calls'[i])
    /\ UNCHANGED <<METHOD, PATH, openapi, docPath, router, successs, errors,
                   errStatus, responses>>

ExtractContext(i) ==
    /\ calls[i].pc = "extract_ctx"
    /\ calls' = [calls EXCEPT ![i] = ExtensionMatch(calls[i])]
    /\ objs' = AfterStep(objs, calls'[i])
    /\ UNCHANGED <<METHOD, PATH, openapi, docPath, router, successs, errors,
                   errStatus, responses>>

\* this.handle(&ctx, req): handle takes self by value, so the future's
\* object is moved into the handler.
HandleInvoke(i) ==
    /\ calls[i].pc = "call_handle"
    /\ calls' = [calls EXCEPT ![i] =
                    [@ EXCEPT !.pc = "in_handle", !.invoked = @ + 1,
                              !.handledOn = calls[i].this,
                              !.trace = Append(@, "handle")]]
    /\ objs' = [objs EXCEPT ![calls[i].this] = Moved]
    /\ UNCHANGED <<METHOD, PATH, openapi, docPath, router, successs, errors,
                   errStatus, responses>>

\* The handler completes with a result of its choosing and the response is
\* built from it.
HandleReturn(i) ==
    /\ calls[i].pc = "in_handle"
    /\ \E res \in Results :
        calls' = [calls EXCEPT ![i] =
                    [@ EXCEPT !.pc = "done", !.result = res,
                              !.response = HandleMatch(res, errStatus),
                              !.trace = Append(@, "response")]]
    /\ UNCHANGED <<METHOD, PATH, openapi, docPath, router, successs, errors,
                   errStatus, responses, objs>>

\* The transport drops the future at one of its suspension points; the
\* future's locals are destroyed with it.
Drop(i) ==
    /\ calls[i].pc \in {"extract_req", "extract_ctx", "call_handle", "in_handle"}
    /\ calls' = [calls EXCEPT ![i] =
                    [IdleCall EXCEPT !.pc = "dropped",
                                     !.this = calls[i].this,
                                     !.invoked = calls[i].invoked,
                                     !.handledOn = calls[i].handledOn]]
    /\ objs' = [objs EXCEPT ![calls[i].this] =
                    IF calls[i].pc = "in_handle" THEN @ ELSE Freed]
    /\ UNCHANGED <<METHOD, PATH, openapi, docPath, router, successs, errors,
                   errStatus, responses>>

Init ==
    /\ METHOD = "Get"
    /\ PATH = <<Slash, 97>>
    /\ openapi = NoOutcome
    /\ docPath = NoOutcome
    /\ router = NoRouter
    \* no documented success, or one
    /\ successs \in {<<>>} \cup { <<e>> : e \in SuccessEntries }
    /\ errors = <<>>
    /\ errStatus \in Conversions
    /\ responses = NoResponses
    /\ objs \in { [o \in 0..NumCalls |-> IF o = 0 THEN st ELSE Unalloc] :
                  st \in EndpointStates }
    /\ calls = [i \in Calls |-> IdleCall]

Next ==
    \E i \in Calls :
        \/ Call(i)
        \/ ExtractRequest(i)
        \/ ExtractContext(i)
        \/ HandleInvoke(i)
        \/ HandleReturn(i)
        \/ Drop(i)

Spec == Init /\ [][Next]_vars

-----------------------------------------------------------------------------
(* Properties of axum_path_str_to_openapi and utoipa::Path::path (SpecPath) *)

\* The translation as the specification words it, read off the path one byte
\* at a time: a '/' ends the segment in progress (closing its brace if it is
\* a parameter); the first byte of a segment opens "/{" if it is ':' and "/"
\* followed by itself otherwise; every other byte is copied.
RECURSIVE Scan(_, _, _, _)
Scan(p, i, atStart, inParam) ==
    LET close == IF inParam THEN <<RBrace>> ELSE <<>>
    IN  IF i > Len(p) THEN close
        ELSE IF p[i] = Slash THEN close \o Scan(p, i + 1, TRUE, FALSE)
        ELSE IF atStart /\ p[i] = Colon
             THEN <<Slash, LBrace>> \o Scan(p, i + 1, FALSE, TRUE)
        ELSE IF atStart THEN <<Slash, p[i]>> \o Scan(p, i + 1, FALSE, FALSE)
        ELSE <<p[i]>> \o Scan(p, i + 1, FALSE, inParam)

ExpectedOpenapi(p) == Scan(p, 1, TRUE, FALSE)

\* C1: for every path string, axum_path_str_to_openapi returns the
\* concatenation, in order, of one piece per non-empty '/'-separated segment:
\* "/{" rest "}" for a segment that begins with ':', "/" segment otherwise.
C1_TranslationIsPiecewise ==
    openapi.state = "returned" =>
        /\ openapi.ok
        /\ openapi.out = ExpectedOpenapi(PATH)

\* Every non-empty segment of p starts with a one-byte character.
OneByteHeads(p) ==
    \A k \in 1..Len(p) :
        (k = 1 \/ p[k - 1] = Slash) => p[k] < 128

\* Where C1 does hold: on the paths whose segments all start with a one-byte
\* character the function returns, and returns the piecewise translation.
TranslationOnOneByteHeads ==
    (openapi.state = "returned" /\ OneByteHeads(PATH)) =>
        /\ openapi.ok
        /\ openapi.out = ExpectedOpenapi(PATH)

\* A template as axum routes it: a leading '/', no empty segment, one-byte
\* characters only.
WellFormedTemplate(p) ==
    /\ Len(p) >= 2
    /\ p[1] = Slash
    /\ p[Len(p)] # Slash
    /\ \A k \in 1..Len(p) : p[k] < 128
    /\ \A k \in 1..(Len(p) - 1) : ~(p[k] = Slash /\ p[k + 1] = Slash)

\* C8: the path the documentation projection reports for an endpoint
\* (utoipa::Path::path of EndpointWrapper) is the brace-delimited OpenAPI form
\* of PATH, axum_path_str_to_openapi(PATH); stated on the well-formed
\* templates, the case the claim is about.
C8_DocPathIsOpenapiForm ==
    (docPath.state = "returned" /\ WellFormedTemplate(PATH)) =>
        LET t == axum_path_str_to_openapi(PATH)
        IN  t.ok /\ docPath.out = t.out

-----------------------------------------------------------------------------
(* Property of Endpoint::route (SpecRoute) *)

\* The HTTP method each variant of Method stands for.
HttpMethodOf(m) ==
    CASE m = "Get" -> "GET" [] m = "Post" -> "POST" [] m = "Put" -> "PUT"
      [] m = "Delete" -> "DELETE" [] m = "Options" -> "OPTIONS"
      [] m = "Head" -> "HEAD" [] m = "Patch" -> "PATCH"
      [] m = "Trace" -> "TRACE" [] m = "Connect" -> "CONNECT"

\* C7: for every endpoint value and every variant of Method, route returns a
\* router that binds exactly (METHOD, PATH) to a handler wrapping a clone of
\* the endpoint, and never aborts the process.
C7_RouteBindsMethodAndPath ==
    router.state # "none" =>
        /\ router.state = "built"
        /\ router.method = HttpMethodOf(METHOD)
        /\ router.path = PATH
        /\ router.inner = objs[0]

-----------------------------------------------------------------------------
(* Property of DocumentedEndpoint::path_item (SpecDoc) *)

\* C6: the responses map of path_item holds exactly one entry per element of
\* successs() and per element of errors(), so Len(successs) + Len(errors)
\* entries, each with the serialization of the declared value as its example,
\* also when several declared entries have the same status code.
C6_OneResponsePerDeclaredEntry ==
    responses.state = "built" =>
        /\ Cardinality(DOMAIN responses.map) = Len(successs) + Len(errors)
        /\ \A k \in 1..Len(successs) :
            LET key == StatusText(successs[k][1])
            IN  /\ key \in DOMAIN responses.map
                /\ responses.map[key].example = ResToJson(successs[k][3])
        /\ \A k \in 1..Len(errors) :
            LET key == StatusText(errStatus[errors[k][2]])
            IN  /\ key \in DOMAIN responses.map
                /\ responses.map[key].example = ErrToJson(errors[k][2])

-----------------------------------------------------------------------------
(* Properties of Endpoint::http (Spec) *)

\* The request of call i could not be extracted.
BadPayload(c) == c.req.rej # ""

\* C2: when the typed request value cannot be extracted, http returns the
\* extractor's own error response and handle is never invoked for that
\* request, whether or not the shared context is present.
C2_BadPayloadShortCircuits ==
    \A i \in Calls :
        LET c == calls[i]
        IN  BadPayload(c) =>
                /\ c.invoked = 0
                /\ c.pc \in {"extract_req", "done"}
                /\ c.pc = "done" =>
                    /\ c.response.status \in {400, 415}
                    /\ c.response.body = <<c.req.rej>>
                    /\ c.trace = <<"from_request", "response">>

\* Two finished calls with a malformed payload, one with the shared context
\* in its extensions and one without.
C2_Witness ==
    \E i, j \in Calls :
        /\ BadPayload(calls[i]) /\ calls[i].pc = "done" /\ calls[i].req.hasCtx
        /\ BadPayload(calls[j]) /\ calls[j].pc = "done" /\ ~calls[j].req.hasCtx

\* C3: when the request value extracts but the extensions hold no
\* SharedContext, http returns an error response, does not panic, and handle
\* is never invoked for that request.
C3_MissingContextShortCircuits ==
    \A i \in Calls :
        LET c == calls[i]
        IN  (c.req.ok /\ ~c.req.hasCtx) =>
                /\ c.invoked = 0
                /\ c.pc \in {"extract_req", "extract_ctx", "done"}
                /\ c.pc = "done" =>
                    /\ c.response.status >= 400
                    /\ c.response.body = <<"Missing request extension">>

C3_Witness ==
    \E i \in Calls :
        /\ calls[i].req.ok /\ ~calls[i].req.hasCtx
        /\ calls[i].pc = "done"
        /\ calls[i].val \in ReqVals

\* C4: when handle returns Err(E), the response has the status the declared
\* conversion gives for E and a JSON body that is the serialization of E.
C4_ErrorStatusAndBody ==
    \A i \in Calls :
        LET c == calls[i]
        IN  (c.pc = "done" /\ c.invoked = 1 /\ ~c.result.ok) =>
                /\ c.response.status = errStatus[c.result.err]
                /\ c.response.ctype = "application/json"
                /\ ErrFromJson(c.response.body) = c.result.err

\* Two finished calls whose handlers failed with errors the conversion maps
\* to different codes.
C4_Witness ==
    \E i, j \in Calls :
        /\ calls[i].pc = "done" /\ calls[i].result.err \in ErrVals
        /\ calls[j].pc = "done" /\ calls[j].result.err \in ErrVals
        /\ errStatus[calls[i].result.err] # errStatus[calls[j].result.err]

\* C5: when handle returns Ok(V) on a well-formed request, the response body
\* deserializes back to V and the status is the one successs() declares for
\* that success.
C5_SuccessStatusIsDocumented ==
    \A i \in Calls :
        LET c == calls[i]
        IN  (c.pc = "done" /\ c.invoked = 1 /\ c.result.ok) =>
                /\ ResFromJson(c.response.body) = c.result.val
                /\ \A k \in 1..Len(successs) :
                    successs[k][3] = c.result.val =>
                        c.response.status = successs[k][1]

\* The orders in which a call's steps can have occurred so far.
StepOrders ==
    { <<>>,
      <<"from_request">>,
      <<"from_request", "response">>,
      <<"from_request", "extension">>,
      <<"from_request", "extension", "response">>,
      <<"from_request", "extension", "handle">>,
      <<"from_request", "extension", "handle", "response">> }

\* C9: in a run of http that is not dropped the steps occur in the order
\* request extraction, context extraction, handle, response; handle is
\* invoked at most once and only after both extractions succeeded; exactly
\* one response is produced, which is the request extractor's error when the
\* payload is malformed and the context is missing too.
C9_StepOrder ==
    \A i \in Calls :
        LET c == calls[i]
        IN  /\ c.invoked <= 1
            /\ c.pc # "dropped" =>
                /\ c.trace \in StepOrders
                /\ c.invoked = 1 <=> c.pc \in {"in_handle"} \/ c.result # NoResult
                /\ c.invoked = 1 => c.req.ok /\ c.req.hasCtx /\ c.ctx
                /\ (c.pc = "done") <=> (c.response # NoResponse)
                /\ c.pc = "done" =>
                    /\ c.trace[Len(c.trace)] = "response"
                    /\ Cardinality({k \in 1..Len(c.trace) :
                                        c.trace[k] = "response"}) = 1
                /\ (c.pc = "done" /\ BadPayload(c) /\ ~c.req.hasCtx) =>
                    c.response = RejectionIntoResponse(c.req.rej)

\* One call finished on the request extractor's error with the context
\* missing too, another finished after running its handler.
C9_Witness ==
    \E i, j \in Calls :
        /\ calls[i].pc = "done" /\ BadPayload(calls[i]) /\ ~calls[i].req.hasCtx
        /\ calls[j].pc = "done"
        /\ calls[j].trace = <<"from_request", "extension", "handle", "response">>

\* The response http gives a request handled alone, given the handler's
\* result.
AloneResponse(req, res, conv) ==
    IF ~req.ok THEN RejectionIntoResponse(req.rej)
    ELSE IF ~req.hasCtx THEN MissingExtensionIntoResponse
    ELSE IF res.ok THEN [status |-> 200, ctype |-> "application/json",
                         body |-> ResToJson(res.val)]
    ELSE [status |-> conv[res.err], ctype |-> "application/json",
          body |-> ErrToJson(res.err)]

\* C10: under any interleaving of concurrent http calls on one endpoint
\* instance, each call runs handle on its own clone, the shared instance is
\* left unchanged, and each response is the one its request would receive if
\* handled alone.
C10_CallsAreIsolated ==
    /\ [](\A i \in Calls :
            LET c == calls[i]
            IN  /\ c.pc # "idle" => c.this = i
                /\ c.invoked = 1 => c.handledOn = i
                /\ c.pc = "done" =>
                    c.response = AloneResponse(c.req, c.result, errStatus))
    /\ [][objs'[0] = objs[0]]_vars

\* Two calls overlap: one is inside its handler while the other has finished
\* after running its own.
C10_Witness ==
    \E i, j \in Calls :
        /\ i # j
        /\ calls[i].pc = "in_handle"
        /\ calls[j].pc = "done" /\ calls[j].invoked = 1
        /\ objs[0] \in EndpointStates

====
